---- MODULE Spec2Model ----
(***************************************************************************)
(* Command resolution of serenity's standard framework                     *)
(* (src/framework/standard/parse.rs): parse_prefix classifies the prefix   *)
(* of a message, parse_command / CommandParser resolve the remaining text  *)
(* against the forest of command groups.                                   *)
(*                                                                         *)
(* Text is a sequence of one-character strings.  All characters of the     *)
(* model are ASCII, so the byte lengths the code advances by (str::len)    *)
(* and the character counts it peeks by (chars().count()) coincide.        *)
(* Option<T> is a sequence of length 0 (None) or 1 (Some).                 *)
(***************************************************************************)
EXTENDS Integers, Sequences, FiniteSets, TLC

VARIABLES msg, config, help_was_set, groups, pc, stream, prefix, rest, self, pos,
          gi, ci, group, gprefix, goff, result

vars == <<msg, config, help_was_set, groups, pc, stream, prefix, rest, self, pos,
          gi, ci, group, gprefix, goff, result>>

(***************************************************************************)
(* Bounds                                                                  *)
(***************************************************************************)
\* longest run of whitespace put between the parts of a message
MaxWs == 1

(***************************************************************************)
(* Option and text helpers                                                 *)
(***************************************************************************)
None == <<>>

Some(x) == <<x>>

IsSome(o) == Len(o) = 1

Min(a, b) == IF a < b THEN a ELSE b

is_whitespace(c) == c = " "

Digits == {"1", "2"}

is_numeric(s) == \A i \in 1..Len(s) : s[i] \in Digits

lower_char(c) ==
    CASE c = "P" -> "p"
      [] c = "I" -> "i"
      [] c = "N" -> "n"
      [] c = "G" -> "g"
      [] OTHER -> c

to_lowercase(s) == [i \in 1..Len(s) |-> lower_char(s[i])]

RECURSIVE trim_start(_)
trim_start(s) ==
    IF s # <<>> /\ is_whitespace(Head(s)) THEN trim_start(Tail(s)) ELSE s

RECURSIVE trim_end(_)
trim_end(s) ==
    IF s # <<>> /\ is_whitespace(s[Len(s)])
    THEN trim_end(SubSeq(s, 1, Len(s) - 1))
    ELSE s

trim(s) == trim_end(trim_start(s))

(***************************************************************************)
(* The cursor (uwl::StringStream): a text and an offset into it            *)
(***************************************************************************)
StringStream(src) == [src |-> src, offset |-> 0]

stream_rest(s) == SubSeq(s.src, s.offset + 1, Len(s.src))

peek_for(s, much) == SubSeq(s.src, s.offset + 1, Min(s.offset + much, Len(s.src)))

RECURSIVE ws_run(_, _)
\* number of whitespace characters of src starting at (0-based) offset off
ws_run(src, off) ==
    IF off < Len(src) /\ is_whitespace(src[off + 1])
    THEN 1 + ws_run(src, off + 1)
    ELSE 0

RECURSIVE run_until(_, _, _)
\* number of characters of src from offset off up to the first one in stop
run_until(src, off, stop) ==
    IF off < Len(src) /\ src[off + 1] \notin stop
    THEN 1 + run_until(src, off + 1, stop)
    ELSE 0

peek_until_whitespace(s) ==
    SubSeq(s.src, s.offset + 1, s.offset + run_until(s.src, s.offset, {" "}))

increment(s, much) == [s EXCEPT !.offset = @ + much]

take_while_whitespace(s) == increment(s, ws_run(s.src, s.offset))

set_unchecked(s, p) == [s EXCEPT !.offset = p]

\* eat: advance past the literal when the next characters equal it
eat(s, lit) ==
    IF peek_for(s, Len(lit)) = lit
    THEN [ok |-> TRUE, stream |-> increment(s, Len(lit))]
    ELSE [ok |-> FALSE, stream |-> s]

\* parse("<@(!){}>"): literal "<@", optional "!", capture up to ">", literal ">"
stream_parse_mention(s) ==
    LET s1 == eat(s, <<"<", "@">>)
        s2 == eat(s1.stream, <<"!">>).stream
        n  == run_until(s2.src, s2.offset, {">"})
        id == peek_for(s2, n)
        s3 == eat(increment(s2, n), <<">">>)
    IN  IF s1.ok /\ s3.ok
        THEN [ok |-> TRUE, id |-> id, stream |-> s3.stream]
        ELSE [ok |-> FALSE, id |-> <<>>, stream |-> s]

(***************************************************************************)
(* Texts used by the grammar, the configurations and the messages          *)
(***************************************************************************)
t_bang == <<"!">>
t_bang2 == <<"!", "!">>
t_qm == <<"?">>
t_ping == <<"p", "i", "n", "g">>
t_pings == <<"p", "i", "n", "g", "s">>
t_go == <<"g", "o">>
t_p == <<"p">>
t_pong == <<"p", "o", "n", "g">>
t_help == <<"h", "e", "l", "p">>
t_h == <<"h">>
t_Pin == <<"P", "i", "n">>
t_add == <<"a", "d", "d">>
t_sub == <<"s", "u", "b">>
t_del == <<"d", "e", "l">>
t_mute == <<"m", "u", "t", "e">>
t_list == <<"l", "i", "s", "t">>
t_about == <<"a", "b", "o", "u", "t">>
t_g == <<"g">>
t_gg == <<"g", "g">>
t_s == <<"s">>
t_m == <<"m">>
t_id1 == <<"1", "2">>
t_id2 == <<"2", "1">>

(***************************************************************************)
(* The grammar: Command and CommandGroup are static data (&'static), read  *)
(* by the parser through options.names, options.sub_commands,              *)
(* options.prefixes, commands, sub_groups and options.default_command.     *)
(***************************************************************************)
Command ==
    [ping  |-> [names |-> <<t_ping, t_p>>, sub_commands |-> <<"pong">>],
     pong  |-> [names |-> <<t_pong>>,      sub_commands |-> <<>>],
     pings |-> [names |-> <<t_pings, t_go>>, sub_commands |-> <<>>],
     help  |-> [names |-> <<t_help>>,      sub_commands |-> <<>>],
     Pin   |-> [names |-> <<t_Pin>>,       sub_commands |-> <<>>],
     add   |-> [names |-> <<t_add>>,       sub_commands |-> <<>>],
     sub   |-> [names |-> <<t_sub>>,       sub_commands |-> <<>>],
     del   |-> [names |-> <<t_del>>,       sub_commands |-> <<>>],
     mute  |-> [names |-> <<t_mute>>,      sub_commands |-> <<>>],
     list  |-> [names |-> <<t_list>>,      sub_commands |-> <<>>],
     about |-> [names |-> <<t_about>>,     sub_commands |-> <<>>]]

CommandGroup ==
    [grp     |-> [prefixes |-> <<t_gg, t_g>>, commands |-> <<"add">>,
                  sub_groups |-> <<"inner", "store">>,
                  default_command |-> Some("list")],
     inner   |-> [prefixes |-> <<>>, commands |-> <<"sub">>,
                  sub_groups |-> <<>>, default_command |-> None],
     store   |-> [prefixes |-> <<t_s>>, commands |-> <<"del">>,
                  sub_groups |-> <<>>, default_command |-> Some("del")],
     general |-> [prefixes |-> <<>>, commands |-> <<"ping", "pings", "help", "Pin">>,
                  sub_groups |-> <<>>, default_command |-> Some("about")],
     mod     |-> [prefixes |-> <<t_m>>, commands |-> <<"mute">>,
                  sub_groups |-> <<>>, default_command |-> None]]

\* the lists of top-level groups handed to parse_command
GroupLists == {<<"grp", "general", "mod">>, <<"grp", "mod">>}

(***************************************************************************)
(* parse_prefix                                                            *)
(***************************************************************************)
Punct(s) == [kind |-> "Punct", text |-> s]

Mention(s) == [kind |-> "Mention", text |-> s]

PrefixNone == [kind |-> "None", text |-> <<>>]

\* lines 20-30: leading whitespace, then the mention attempt
parse_prefix_mention(m, cfg) ==
    LET s0 == take_while_whitespace(StringStream(m))
        r  == stream_parse_mention(s0)
    IN  IF IsSome(cfg.on_mention)
        THEN IF r.ok /\ is_numeric(r.id) /\ cfg.on_mention[1] = r.id
             THEN [returned |-> TRUE, prefix |-> Mention(r.id),
                   rest |-> stream_rest(take_while_whitespace(r.stream)),
                   stream |-> take_while_whitespace(r.stream)]
             ELSE [returned |-> FALSE, prefix |-> PrefixNone, rest |-> <<>>,
                   stream |-> r.stream]
        ELSE [returned |-> FALSE, prefix |-> PrefixNone, rest |-> <<>>,
              stream |-> s0]

RECURSIVE dynamic_loop(_, _, _)
\* lines 34-43: the first dynamic candidate equal to the peeked window
dynamic_loop(s, dyn, i) ==
    IF i > Len(dyn) THEN None
    ELSE IF IsSome(dyn[i]) /\ dyn[i][1] = peek_for(s, Len(dyn[i][1]))
         THEN Some(peek_for(s, Len(dyn[i][1])))
         ELSE dynamic_loop(s, dyn, i + 1)

RECURSIVE static_loop(_, _, _, _)
\* the static prefixes tried even when a dynamic candidate was accepted
static_loop_ignoring_found(s, prefixes, i, found) ==
    IF i > Len(prefixes) THEN found
    ELSE IF prefixes[i] = peek_for(s, Len(prefixes[i]))
         THEN Some(peek_for(s, Len(prefixes[i])))
         ELSE static_loop(s, prefixes, i + 1, found)

\* lines 45-57: the static prefixes, skipped once a prefix is set
static_loop(s, prefixes, i, found) ==
    IF i > Len(prefixes) \/ IsSome(found) THEN found
    ELSE IF prefixes[i] = peek_for(s, Len(prefixes[i]))
         THEN Some(peek_for(s, Len(prefixes[i])))
         ELSE static_loop(s, prefixes, i + 1, found)

\* lines 32-58
find_prefix(s, cfg) ==
    IF cfg.prefixes # <<>> \/ cfg.dynamic_prefixes # <<>>
    THEN static_loop(s, cfg.prefixes, 1, dynamic_loop(s, cfg.dynamic_prefixes, 1))
    ELSE None

\* the accepted prefix is not advanced past
parse_prefix_match_no_increment(s, cfg) ==
    LET found == find_prefix(s, cfg)
        s2 == IF cfg.with_whitespace.prefixes THEN take_while_whitespace(s) ELSE s
    IN  [prefix |-> IF IsSome(found) THEN Punct(found[1]) ELSE PrefixNone,
         rest |-> trim(stream_rest(s2)),
         stream |-> s2]

\* lines 60-78
parse_prefix_match(s, cfg) ==
    LET found == find_prefix(s, cfg)
        s1 == IF IsSome(found) THEN increment(s, Len(found[1])) ELSE s
        s2 == IF cfg.with_whitespace.prefixes THEN take_while_whitespace(s1) ELSE s1
    IN  [prefix |-> IF IsSome(found) THEN Punct(found[1]) ELSE PrefixNone,
         rest |-> trim(stream_rest(s2)),
         stream |-> s2]

\* lines 15-78
parse_prefix(m, cfg) ==
    LET a == parse_prefix_mention(m, cfg)
        b == parse_prefix_match(a.stream, cfg)
    IN  IF a.returned
        THEN [prefix |-> a.prefix, rest |-> a.rest]
        ELSE [prefix |-> b.prefix, rest |-> b.rest]

(***************************************************************************)
(* CommandParser                                                           *)
(* log is a history of the command-name comparisons made so far: the name, *)
(* the text n compared with it, the offset and the outcome.  The code      *)
(* keeps no such record; no operator reads it.                             *)
(***************************************************************************)
CommandParser_new(s, cfg) ==
    [stream |-> s, config |-> cfg,
     mode |-> IF cfg.by_space THEN "BySpace" ELSE "ByLength",
     unrecognised |-> None, log |-> <<>>]

\* the token is taken whatever the mode
next_text_by_space(p, length) == peek_until_whitespace(p.stream)

\* lines 105-110
next_text(p, length) ==
    IF p.mode = "ByLength"
    THEN peek_for(p.stream, length)
    ELSE peek_until_whitespace(p.stream)

\* lines 112-119, applied to the text
as_lowercase(p, s) == IF p.config.case_insensitive THEN to_lowercase(s) ELSE s

\* the disabled names are not looked at
name_equals_ignoring_disabled(p, n, name) == as_lowercase(p, n) = name

\* line 127
name_equals(p, n, name) ==
    /\ as_lowercase(p, n) = name
    /\ as_lowercase(p, n) \notin p.config.disabled_commands

\* the whitespace after the name is never skipped
command_advance_no_whitespace(p, n) ==
    [p EXCEPT !.stream = increment(p.stream, Len(n))]

\* lines 130-134
command_advance(p, n) ==
    LET s1 == increment(p.stream, Len(n))
    IN  [p EXCEPT !.stream =
            IF p.config.with_whitespace.commands
            THEN take_while_whitespace(s1) ELSE s1]

logged(p, name, n, eq) ==
    [p EXCEPT !.log = Append(@, [name |-> name, n |-> n,
                                 offset |-> p.stream.offset, equals |-> eq])]

RECURSIVE CommandParser_command(_, _)
RECURSIVE command_names(_, _, _)
RECURSIVE command_subs(_, _, _)

\* lines 136-141
command_subs(p, c, j) ==
    IF j > Len(Command[c].sub_commands) THEN [ret |-> None, self |-> p]
    ELSE LET r == CommandParser_command(p, Command[c].sub_commands[j])
         IN  IF IsSome(r.ret) THEN r ELSE command_subs(r.self, c, j + 1)

\* lines 122-148
command_names(p, c, i) ==
    IF i > Len(Command[c].names) THEN [ret |-> None, self |-> p]
    ELSE LET name == Command[c].names[i]
             n == next_text(p, Len(name))
         IN  IF name_equals(p, n, name)
             THEN LET r == command_subs(command_advance(logged(p, name, n, TRUE), n), c, 1)
                  IN  [ret |-> IF IsSome(r.ret) THEN r.ret ELSE Some(c),
                       self |-> [r.self EXCEPT !.unrecognised = None]]
             ELSE command_names([logged(p, name, n, FALSE) EXCEPT !.unrecognised = Some(n)],
                                c, i + 1)

\* lines 121-151
CommandParser_command(p, c) == command_names(p, c, 1)

\* lines 158-162
group_advance(p, pp) ==
    LET s1 == increment(p.stream, Len(pp))
    IN  [p EXCEPT !.stream =
            IF p.config.with_whitespace.groups
            THEN take_while_whitespace(s1) ELSE s1]

RECURSIVE CommandParser_group(_, _)
RECURSIVE group_prefixes(_, _, _)
RECURSIVE group_subs(_, _, _)

\* lines 164-170
group_subs(p, g, j) ==
    IF j > Len(CommandGroup[g].sub_groups)
    THEN [gprefix |-> None, group |-> g, self |-> p]
    ELSE LET x == CommandParser_group(p, CommandGroup[g].sub_groups[j])
         IN  IF IsSome(x.gprefix) THEN x ELSE group_subs(x.self, g, j + 1)

\* lines 154-176
group_prefixes(p, g, i) ==
    IF i > Len(CommandGroup[g].prefixes)
    THEN [gprefix |-> None, group |-> g, self |-> p]
    ELSE LET pre == CommandGroup[g].prefixes[i]
             pp == next_text(p, Len(pre))
         IN  IF pre = pp
             THEN LET x == group_subs(group_advance(p, pp), g, 1)
                  IN  IF IsSome(x.gprefix) THEN x
                      ELSE [gprefix |-> Some(pp), group |-> g, self |-> x.self]
             ELSE group_prefixes(p, g, i + 1)

\* lines 153-177
CommandParser_group(p, g) == group_prefixes(p, g, 1)

\* line 184: the group is skipped
group_skipped(gp, g) == ~IsSome(gp) /\ CommandGroup[g].prefixes # <<>>

\* the default command fires without a group prefix
default_fires_without_prefix(gp, g) == IsSome(CommandGroup[g].default_command)

\* lines 202-203: the default command is the result
default_fires(gp, g) == IsSome(CommandGroup[g].default_command) /\ IsSome(gp)

RECURSIVE help_loop(_, _, _)
\* the whitespace after the help name is kept
help_loop_keep_whitespace(s, names, i) ==
    IF i > Len(names) THEN [ok |-> FALSE, name |-> <<>>, stream |-> s]
    ELSE IF eat(s, names[i]).ok
         THEN [ok |-> TRUE, name |-> names[i], stream |-> eat(s, names[i]).stream]
         ELSE help_loop(s, names, i + 1)

\* lines 232-242: the first help name the stream eats
help_loop(s, names, i) ==
    IF i > Len(names) THEN [ok |-> FALSE, name |-> <<>>, stream |-> s]
    ELSE IF eat(s, names[i]).ok
         THEN [ok |-> TRUE, name |-> names[i],
               stream |-> take_while_whitespace(eat(s, names[i]).stream)]
         ELSE help_loop(s, names, i + 1)

(***************************************************************************)
(* Results                                                                 *)
(***************************************************************************)
\* via tells a command found by name from one returned as the default
Invoke_Command(pre, g, gp, c, args, via) ==
    [kind |-> "Command", prefix |-> pre, group |-> g, gprefix |-> gp,
     command |-> c, name |-> <<>>, args |-> args, unrecognised |-> None,
     via |-> via]

Invoke_Help(pre, name, args) ==
    [kind |-> "Help", prefix |-> pre, group |-> "", gprefix |-> None,
     command |-> "", name |-> name, args |-> args, unrecognised |-> None,
     via |-> ""]

Err(unrec) ==
    [kind |-> "Err", prefix |-> PrefixNone, group |-> "", gprefix |-> None,
     command |-> "", name |-> <<>>, args |-> <<>>, unrecognised |-> unrec,
     via |-> ""]

Pending ==
    [kind |-> "Pending", prefix |-> PrefixNone, group |-> "", gprefix |-> None,
     command |-> "", name |-> <<>>, args |-> <<>>, unrecognised |-> None,
     via |-> ""]

(***************************************************************************)
(* Inputs: messages and configurations                                     *)
(***************************************************************************)
Ws(k) == [i \in 1..k |-> " "]

RECURSIVE Join(_, _)
Join(words, sep) ==
    IF words = <<>> THEN <<>>
    ELSE IF Len(words) = 1 THEN words[1]
    ELSE words[1] \o sep \o Join(Tail(words), sep)

WithWhiteSpace(p, g, c) == [prefixes |-> p, groups |-> g, commands |-> c]

WithWhiteSpaces ==
    {WithWhiteSpace(p, g, c) : p \in BOOLEAN, g \in BOOLEAN, c \in BOOLEAN}

Configuration(pre, dyn, men, bs, ci_, dis, ww) ==
    [prefixes |-> pre, dynamic_prefixes |-> dyn, on_mention |-> men,
     by_space |-> bs, case_insensitive |-> ci_, disabled_commands |-> dis,
     with_whitespace |-> ww]

t_now == <<"n", "o", "w">>
t_please == <<"p", "l", "e", "a", "s", "e">>
t_x == <<"x">>
t_PING == <<"P", "I", "N", "G">>
t_unknown == <<"u", "n", "k", "n", "o", "w", "n">>
t_helper == <<"h", "e", "l", "p", "e", "r">>

\* the words following the prefix in the messages of the command stage
CmdWords ==
    {<<>>, <<t_ping>>, <<t_ping, t_now, t_please>>, <<t_ping, t_pong>>,
     <<t_ping, t_pong, t_x>>, <<t_p>>, <<t_p, t_pong>>, <<t_PING>>, <<t_Pin>>,
     <<t_pong>>, <<t_g>>, <<t_g, t_add>>, <<t_gg, t_add>>, <<t_g, t_sub>>,
     <<t_g, t_s>>, <<t_g, t_s, t_del>>, <<t_g, t_s, t_x>>, <<t_g, t_x>>,
     <<t_m>>, <<t_m, t_mute>>, <<t_m, t_x>>, <<t_unknown>>, <<t_help>>,
     <<t_help, t_ping>>, <<t_helper>>, <<t_h>>, <<t_sub>>, <<t_list>>}

CmdMessages ==
    {t_bang \o Ws(a) \o Join(w, Ws(k)) : a \in 0..1, k \in 0..MaxWs, w \in CmdWords}

CmdConfigs ==
    {Configuration(<<t_bang>>, <<>>, None, bs, ci_, dis, ww) :
        bs \in BOOLEAN, ci_ \in BOOLEAN,
        dis \in {{}, {t_ping}, {t_p, t_pong}},
        ww \in WithWhiteSpaces}

HelpNames == {None, Some(<<t_help, t_h>>)}

(***************************************************************************)
(* The state machine: one resolution of one message                        *)
(***************************************************************************)
InitWith(Msgs, Cfgs, Helps, Grps) ==
    /\ msg \in Msgs
    /\ groups \in Grps
    /\ config \in Cfgs
    /\ help_was_set \in Helps
    /\ pc = "mention"
    /\ stream = StringStream(msg)
    /\ prefix = PrefixNone
    /\ rest = <<>>
    /\ self = CommandParser_new(StringStream(<<>>), config)
    /\ pos = 0
    /\ gi = 1
    /\ ci = 1
    /\ group = ""
    /\ gprefix = None
    /\ goff = 0
    /\ result = Pending

Init == InitWith(CmdMessages, CmdConfigs, HelpNames, GroupLists)

\* parse_prefix, lines 20-30
PrefixMention ==
    /\ pc = "mention"
    /\ LET a == parse_prefix_mention(msg, config)
       IN  /\ stream' = a.stream
           /\ prefix' = a.prefix
           /\ rest' = a.rest
           /\ pc' = IF a.returned THEN "parse_command" ELSE "prefix"
    /\ UNCHANGED <<msg, config, help_was_set, groups, self, pos, gi, ci, group,
                   gprefix, goff, result>>

\* parse_prefix, lines 32-78
PrefixMatch ==
    /\ pc = "prefix"
    /\ LET b == parse_prefix_match(stream, config)
       IN  /\ stream' = b.stream
           /\ prefix' = b.prefix
           /\ rest' = b.rest
    /\ pc' = "parse_command"
    /\ UNCHANGED <<msg, config, help_was_set, groups, self, pos, gi, ci, group,
                   gprefix, goff, result>>

\* parse_command, lines 221-244, and the first line of parse (180)
ParseCommand ==
    /\ pc = "parse_command"
    /\ LET s0 == take_while_whitespace(StringStream(rest))
           h == IF IsSome(help_was_set)
                THEN help_loop(s0, help_was_set[1], 1)
                ELSE [ok |-> FALSE, name |-> <<>>, stream |-> s0]
       IN  IF h.ok
           THEN /\ result' = Invoke_Help(prefix, h.name, stream_rest(h.stream))
                /\ pc' = "done"
                /\ UNCHANGED <<self, pos>>
           ELSE /\ self' = CommandParser_new(s0, config)
                /\ pos' = s0.offset
                /\ pc' = "group"
                /\ UNCHANGED result
    /\ gi' = 1
    /\ UNCHANGED <<msg, config, help_was_set, groups, stream, prefix, rest, ci, group,
                   gprefix, goff>>

\* parse, lines 181-184: the next top-level group
TryGroup ==
    /\ pc = "group"
    /\ gi <= Len(groups)
    /\ LET x == CommandParser_group(self, groups[gi])
       IN  /\ self' = x.self
           /\ group' = x.group
           /\ gprefix' = x.gprefix
           /\ goff' = x.self.stream.offset
           /\ pc' = IF group_skipped(x.gprefix, x.group) THEN "restore" ELSE "command"
    /\ ci' = 1
    /\ UNCHANGED <<msg, config, help_was_set, groups, stream, prefix, rest, pos, gi, result>>

\* parse, lines 189-199: the next command of the group
TryCommand ==
    /\ pc = "command"
    /\ ci <= Len(CommandGroup[group].commands)
    /\ LET r == CommandParser_command(self, CommandGroup[group].commands[ci])
       IN  /\ self' = r.self
           /\ IF IsSome(r.ret)
              THEN /\ result' = Invoke_Command(prefix, group, gprefix, r.ret[1],
                                               stream_rest(r.self.stream), "name")
                   /\ pc' = "done"
                   /\ ci' = ci
              ELSE /\ ci' = ci + 1
                   /\ UNCHANGED <<result, pc>>
    /\ UNCHANGED <<msg, config, help_was_set, groups, stream, prefix, rest, pos, gi,
                   group, gprefix, goff>>

\* parse, lines 201-212: no command of the group matched
DefaultCommand ==
    /\ pc = "command"
    /\ ci > Len(CommandGroup[group].commands)
    /\ IF default_fires(gprefix, group)
       THEN /\ result' = Invoke_Command(prefix, group, gprefix,
                                        CommandGroup[group].default_command[1],
                                        stream_rest(self.stream), "default")
            /\ pc' = "done"
       ELSE /\ pc' = "restore"
            /\ UNCHANGED result
    /\ UNCHANGED <<msg, config, help_was_set, groups, stream, prefix, rest, self, pos,
                   gi, ci, group, gprefix, goff>>

\* the cursor is not set back before the next group
Restore_forgotten ==
    /\ pc = "restore"
    /\ gi' = gi + 1
    /\ pc' = "group"
    /\ UNCHANGED <<msg, config, help_was_set, groups, stream, prefix, rest, self,
                   pos, ci, group, gprefix, goff, result>>

\* parse, lines 185-186 and 214: back to the recorded offset, next group
Restore ==
    /\ pc = "restore"
    /\ self' = [self EXCEPT !.stream = set_unchecked(@, pos)]
    /\ gi' = gi + 1
    /\ pc' = "group"
    /\ UNCHANGED <<msg, config, help_was_set, groups, stream, prefix, rest, pos, ci,
                   group, gprefix, goff, result>>

\* parse, line 217: every group was tried
Fail ==
    /\ pc = "group"
    /\ gi > Len(groups)
    /\ result' = Err(self.unrecognised)
    /\ pc' = "done"
    /\ UNCHANGED <<msg, config, help_was_set, groups, stream, prefix, rest, self, pos,
                   gi, ci, group, gprefix, goff>>

Next ==
    \/ PrefixMention
    \/ PrefixMatch
    \/ ParseCommand
    \/ TryGroup
    \/ TryCommand
    \/ DefaultCommand
    \/ Restore
    \/ Fail

Spec == Init /\ [][Next]_vars

(***************************************************************************)
(* Helpers of the properties                                               *)
(***************************************************************************)
Done == pc = "done"

\* the text handed to the command parser and its whitespace-delimited token
\* or window at an offset
TokenAt(src, off) == SubSeq(src, off + 1, off + run_until(src, off, {" "}))

WindowAt(src, off, n) == SubSeq(src, off + 1, Min(off + n, Len(src)))

TextFrom(src, off) == SubSeq(src, off + 1, Len(src))

IsPrefixOf(a, b) == Len(a) <= Len(b) /\ SubSeq(b, 1, Len(a)) = a

MatchedEntries == {i \in DOMAIN self.log : self.log[i].equals}

LastOf(S) == CHOOSE i \in S : \A j \in S : j <= i

Fold(s) == IF config.case_insensitive THEN to_lowercase(s) ELSE s

(***************************************************************************)
(* C10                                                                     *)
(***************************************************************************)
C10_State ==
    /\ pc = "group" => self.stream.offset = pos
    /\ self.stream.offset <= Len(self.stream.src)
    /\ pc \in {"group", "command", "restore"} => pos = ws_run(rest, 0)

C10_Step ==
    \* a group whose prefix did not match has not moved the cursor
    /\ (pc = "group" /\ pc' = "restore") => self'.stream.offset = self.stream.offset
    \* a command that did not match has not moved the cursor
    /\ (pc = "command" /\ pc' = "command") => self'.stream.offset = self.stream.offset
    \* a group left without a result was left at the offset reached by its prefix
    /\ (pc = "command" /\ pc' = "restore") => self.stream.offset = goff
    \* the position restored is the one read when parse started
    /\ pc = "restore" => (self'.stream.offset = pos /\ pos' = pos /\ pc' = "group")
    \* the cursor only moves forward from the recorded offset between restores
    /\ pc \in {"group", "command"} => self'.stream.offset >= self.stream.offset

\* C10: every top-level group is attempted at the offset recorded when parse
\* started; a failed group prefix or command comparison does not advance the
\* cursor; the offset never exceeds the length of the text; the only position
\* restored is the recorded one.
C10_Backtracking == []C10_State /\ [][C10_Step]_vars

\* a group whose prefix matched gave neither a command nor a default, the
\* cursor was restored and the resolution failed
C10_Witness ==
    /\ Done
    /\ result.kind = "Err"
    /\ IsSome(gprefix)
    /\ goff > pos
    /\ self.stream.offset = pos

(***************************************************************************)
(* C3                                                                      *)
(***************************************************************************)
C3_State ==
    /\ (Done /\ result.via = "default") =>
          /\ IsSome(result.gprefix)
          /\ CommandGroup[result.group].prefixes # <<>>
          /\ CommandGroup[result.group].default_command = Some(result.command)
          \* no member command matched, and each was tried
          /\ MatchedEntries = {}
          /\ ci > Len(CommandGroup[result.group].commands)
          \* nothing was consumed after the group prefix
          /\ result.args = TextFrom(self.stream.src, goff)
          /\ result.group = groups[gi] =>
                LET after == TextFrom(self.stream.src, pos + Len(result.gprefix[1]))
                IN  result.args = IF config.with_whitespace.groups
                                  THEN trim_start(after) ELSE after
    /\ (Done /\ result.via = "name") => MatchedEntries # {}

C3_Step ==
    (/\ pc = "command"
     /\ ci > Len(CommandGroup[group].commands)
     /\ IsSome(gprefix)
     /\ IsSome(CommandGroup[group].default_command))
    => (/\ pc' = "done"
        /\ result'.via = "default"
        /\ result'.group = group
        /\ result'.command = CommandGroup[group].default_command[1])

C3_WitnessSubGroup ==
    /\ Done
    /\ result.via = "default"
    /\ result.group = "store"
    /\ result.command = "del"
    /\ result.args = t_x

(***************************************************************************)
(* C8                                                                      *)
(***************************************************************************)
FirstSubGroup(g) == CommandGroup[g].sub_groups[1]

\* C8: once the prefix of a parent group has matched, a sub-group without
\* prefixes is entered at once, so that its commands are the ones tried.
C8_PrefixlessSubGroupEntered ==
    (/\ pc = "command"
     /\ CommandGroup[groups[gi]].sub_groups # <<>>
     /\ CommandGroup[FirstSubGroup(groups[gi])].prefixes = <<>>)
    => group = FirstSubGroup(groups[gi])

(***************************************************************************)
(* C9                                                                      *)
(***************************************************************************)
m_ping_now_please == t_bang \o t_ping \o <<" ">> \o t_now \o <<" ">> \o t_please

a_now_please == t_now \o <<" ">> \o t_please

\* the top-level groups include the prefix-less group that holds "ping"
PingDeclared == \E i \in DOMAIN groups : groups[i] = "general"

\* C9 as claimed: the args of "!ping now please" are "now please" whatever
\* the whitespace options and the matching mode.
C9_ArgsAlwaysTrimmed ==
    (Done /\ msg = m_ping_now_please /\ PingDeclared /\ config.disabled_commands = {})
    => /\ result.kind = "Command"
       /\ result.prefix = Punct(t_bang)
       /\ result.command = "ping"
       /\ result.args = a_now_please

\* C9 amended: the args are the text after the matched command name, with the
\* whitespace after the name removed exactly when with_whitespace.commands is
\* set; for "!ping now please" they are "now please" or " now please".
C9_ArgsFollowName ==
    /\ (Done /\ result.via = "name") =>
          LET e == self.log[LastOf(MatchedEntries)]
              after == TextFrom(self.stream.src, e.offset + Len(e.name))
          IN  result.args = IF config.with_whitespace.commands
                            THEN trim_start(after) ELSE after
    /\ (Done /\ msg = m_ping_now_please /\ PingDeclared /\ config.disabled_commands = {}) =>
          /\ result.kind = "Command"
          /\ result.prefix = Punct(t_bang)
          /\ result.command = "ping"
          /\ result.args = IF config.with_whitespace.commands
                           THEN a_now_please ELSE <<" ">> \o a_now_please

C9_Witness ==
    /\ Done
    /\ msg = m_ping_now_please
    /\ ~config.with_whitespace.commands
    /\ result.command = "ping"
    /\ result.args = <<" ">> \o a_now_please

(***************************************************************************)
(* C4                                                                      *)
(***************************************************************************)
LastEntry == self.log[Len(self.log)]

\* C4 as claimed: the hint of a failure is the whitespace-delimited token that
\* was last compared with a command name, in both matching modes ("unknown"
\* for "!unknown"), and there is none exactly when nothing was compared.
C4_HintIsToken ==
    (Done /\ result.kind = "Err") =>
        IF self.log = <<>>
        THEN result.unrecognised = None
        ELSE result.unrecognised = Some(TokenAt(self.stream.src, LastEntry.offset))

\* C4 amended: the hint is the text of the last comparison: the token in
\* BySpace mode, the window of as many characters as the compared name has in
\* ByLength mode (a name that is equal but disabled counts as failed); there is
\* none exactly when nothing was compared.
C4_HintIsLastCompared ==
    (Done /\ result.kind = "Err") =>
        /\ \A i \in DOMAIN self.log : ~self.log[i].equals
        /\ IF self.log = <<>>
           THEN result.unrecognised = None
           ELSE result.unrecognised =
                  Some(IF config.by_space
                       THEN TokenAt(self.stream.src, LastEntry.offset)
                       ELSE WindowAt(self.stream.src, LastEntry.offset,
                                     Len(LastEntry.name)))

C4_Witness ==
    /\ Done
    /\ result.kind = "Err"
    /\ msg = t_bang \o t_unknown
    /\ ~config.by_space
    /\ result.unrecognised = Some(<<"u", "n", "k">>)

C4_WitnessAbsent ==
    /\ Done
    /\ result.kind = "Err"
    /\ self.log = <<>>

(***************************************************************************)
(* C6                                                                      *)
(***************************************************************************)
\* where the text handed to parse_command starts after its leading whitespace
TextStart == ws_run(rest, 0)

HelpMatching ==
    IF IsSome(help_was_set)
    THEN {i \in DOMAIN help_was_set[1] :
            IsPrefixOf(help_was_set[1][i], TextFrom(rest, TextStart))}
    ELSE {}

FirstOf(S) == CHOOSE i \in S : \A j \in S : i <= j

\* C6 as claimed: a Help invocation is returned only when the text, after its
\* leading whitespace, is exactly a help alias (the whole token), so "helper"
\* is left to the commands.
C6_HelpOnlyOnExactToken ==
    (Done /\ result.kind = "Help") => TokenAt(rest, TextStart) = result.name

\* C6 amended: with help aliases supplied, a Help invocation is returned
\* exactly when the text after the leading whitespace starts with an alias;
\* it carries the first such alias in declared order and the text after it
\* without leading whitespace, and no group or command was tried.
C6_HelpOnLiteralPrefix ==
    Done =>
        /\ result.kind = "Help" <=> HelpMatching # {}
        /\ result.kind = "Help" =>
              LET name == help_was_set[1][FirstOf(HelpMatching)]
              IN  /\ result.name = name
                  /\ result.prefix = prefix
                  /\ result.args = trim_start(TextFrom(rest, TextStart + Len(name)))
                  /\ self.log = <<>>
                  /\ group = ""

C6_Witness ==
    /\ Done
    /\ result.kind = "Help"
    /\ rest = t_helper
    /\ result.name = t_help
    /\ result.args = <<"e", "r">>

\* a Help invocation took precedence over the command named "help"
C6_WitnessPrecedence ==
    /\ Done
    /\ result.kind = "Help"
    /\ rest = t_help \o <<" ">> \o t_ping
    /\ PingDeclared
    /\ result.args = t_ping

(***************************************************************************)
(* C2                                                                      *)
(***************************************************************************)
NamesOf(c) == {Command[c].names[i] : i \in DOMAIN Command[c].names}

\* C2 as claimed: a command one of whose names is disabled is matched by none
\* of its aliases.
C2_DisabledByEveryAlias ==
    \A c \in DOMAIN Command :
        (NamesOf(c) \cap config.disabled_commands # {})
        => ~(Done /\ result.kind = "Command" /\ result.via = "name"
                  /\ result.command = c)

\* C2 amended: disabling is by name.  A name in disabled_commands never
\* matches, for any command or sub-command; every other name matches exactly
\* when the text (case-folded in case-insensitive mode) equals it, so a
\* command is found exactly when one of its aliases that is not disabled
\* equals the text, and its sub-commands resolve from there.
C2_DisabledNamesNeverMatch ==
    /\ \A i \in DOMAIN self.log :
          LET e == self.log[i]
          IN  e.equals <=> (Fold(e.n) = e.name /\ e.name \notin config.disabled_commands)
    /\ (pc = "command" /\ ci <= Len(CommandGroup[group].commands)) =>
          LET c == CommandGroup[group].commands[ci]
              r == CommandParser_command(self, c)
          IN  IsSome(r.ret) <=>
                \E i \in DOMAIN Command[c].names :
                    /\ Fold(next_text(self, Len(Command[c].names[i]))) = Command[c].names[i]
                    /\ Command[c].names[i] \notin config.disabled_commands
    /\ (Done /\ result.via = "name") =>
          \A i \in MatchedEntries : self.log[i].name \notin config.disabled_commands

\* with "ping" disabled, its sub-command "pong" was reached through alias "p"
C2_Witness ==
    /\ Done
    /\ config.disabled_commands = {t_ping}
    /\ result.kind = "Command"
    /\ result.command = "pong"
    /\ \E i \in MatchedEntries : self.log[i].name = t_p

(***************************************************************************)
(* The prefix stage: configurations and messages for parse_prefix          *)
(***************************************************************************)
PrefixLists == {<<>>, <<t_bang>>, <<t_bang, t_bang2>>, <<t_bang2, t_bang>>}

DynamicLists ==
    {<<>>, <<None, Some(t_qm)>>, <<Some(t_bang2)>>, <<Some(t_qm), Some(t_bang)>>}

PrefixConfigs ==
    {Configuration(pre, dyn, men, bs, FALSE, {}, WithWhiteSpace(wp, TRUE, TRUE)) :
        pre \in PrefixLists, dyn \in DynamicLists,
        men \in {None, Some(t_id1)}, bs \in BOOLEAN, wp \in BOOLEAN}

tag(id) == <<"<", "@">> \o id \o <<">">>

PrefixHeads ==
    {<<>>, t_bang, t_bang2, t_qm, t_qm \o t_bang,
     tag(t_id1), tag(<<"!">> \o t_id1), tag(t_id2), tag(t_id2) \o t_bang,
     tag(<<"!">> \o t_id2) \o t_bang2, tag(<<"1", "x">>), tag(<<"1", "x">>) \o t_bang,
     <<"<", "@">> \o t_id1, <<"<", "@">>, <<"<">> \o t_id1 \o <<">">>}

PrefixMessages ==
    {Ws(a) \o h \o Ws(k) \o w :
        a \in 0..1, k \in 0..MaxWs, h \in PrefixHeads,
        w \in {<<>>, t_ping}}

InitPrefix ==
    InitWith(PrefixMessages, PrefixConfigs, {None}, {<<"grp", "general", "mod">>})

SpecPrefix == InitPrefix /\ [][Next]_vars

(***************************************************************************)
(* C5                                                                      *)
(***************************************************************************)
RECURSIVE Somes(_)
\* the candidates the dynamic evaluators returned, in declared order
Somes(dyn) ==
    IF dyn = <<>> THEN <<>>
    ELSE (IF IsSome(Head(dyn)) THEN <<Head(dyn)[1]>> ELSE <<>>) \o Somes(Tail(dyn))

Candidates == Somes(config.dynamic_prefixes) \o config.prefixes

CandidatesMatching ==
    {i \in DOMAIN Candidates :
        Candidates[i] = WindowAt(stream.src, stream.offset, Len(Candidates[i]))}

C5_Step ==
    pc = "prefix" =>
        IF CandidatesMatching = {}
        THEN /\ prefix' = PrefixNone
             /\ rest' = trim(TextFrom(stream.src, stream.offset))
        ELSE LET p == Candidates[FirstOf(CandidatesMatching)]
             IN  /\ prefix' = Punct(p)
                 /\ rest' = trim(TextFrom(stream.src, stream.offset + Len(p)))

\* C5: when no mention is accepted, the prefix accepted is the first of the
\* candidates "dynamic in declared order, then static in declared order" that
\* equals the window of its own character count at the cursor; there is no
\* longest-match rule.
C5_FirstCandidateWins == [][C5_Step]_vars

\* "!" declared before "!!" was accepted on a message starting with "!!"
C5_Witness ==
    /\ pc = "parse_command"
    /\ config.prefixes = <<t_bang, t_bang2>>
    /\ config.dynamic_prefixes = <<>>
    /\ IsPrefixOf(t_bang2, stream.src)
    /\ prefix = Punct(t_bang)

\* a dynamic candidate was accepted although a static prefix matched too
C5_WitnessDynamic ==
    /\ pc = "parse_command"
    /\ config.prefixes = <<t_bang, t_bang2>>
    /\ config.dynamic_prefixes = <<Some(t_bang2)>>
    /\ prefix = Punct(t_bang2)

(***************************************************************************)
(* C7                                                                      *)
(***************************************************************************)
MentionAccepted ==
    LET r == stream_parse_mention(take_while_whitespace(StringStream(msg)))
    IN  /\ IsSome(config.on_mention)
        /\ r.ok
        /\ is_numeric(r.id)
        /\ r.id = config.on_mention[1]

\* C7: Mention(id) is returned exactly when the text after the leading
\* whitespace starts with a well-formed tag whose numeric id is the configured
\* one; otherwise the mention attempt has no effect: the prefix and the
\* remaining text are those of the same message with no mention configured.
C7_MentionAttemptHasNoEffect ==
    pc \notin {"mention", "prefix"} =>
        /\ prefix.kind = "Mention" <=> MentionAccepted
        /\ ~MentionAccepted =>
              [prefix |-> prefix, rest |-> rest] =
                 parse_prefix(msg, [config EXCEPT !.on_mention = None])

(***************************************************************************)
(* The whole resolution on messages of the form P + " " + N                *)
(***************************************************************************)
E2EMessages ==
    {P \o <<" ">> \o N :
        P \in {t_bang, t_bang2, t_qm, tag(t_id2)},
        N \in {t_ping, t_p, t_pings, t_go, t_help, t_Pin, t_add}}

E2EConfigs ==
    {Configuration(pre, dyn, men, bs, ci_, dis, WithWhiteSpace(w, w, w)) :
        pre \in PrefixLists \cup {<<tag(t_id2), t_bang>>},
        dyn \in {<<>>, <<Some(t_bang)>>, <<None, Some(t_qm)>>},
        men \in {None, Some(t_id1)}, bs \in BOOLEAN, ci_ \in BOOLEAN,
        dis \in {{}, {t_ping}}, w \in BOOLEAN}

InitE2E ==
    InitWith(E2EMessages, E2EConfigs, HelpNames, {<<"grp", "general", "mod">>})

SpecE2E == InitE2E /\ [][Next]_vars

(***************************************************************************)
(* C1                                                                      *)
(***************************************************************************)
\* the places (group, command, name) of the names of the commands of the
\* prefix-less top-level groups
NamePlaces ==
    UNION {UNION {{<<g, c, n>> :
                     n \in DOMAIN Command[CommandGroup[groups[g]].commands[c]].names} :
                  c \in DOMAIN CommandGroup[groups[g]].commands} :
           g \in {i \in DOMAIN groups : CommandGroup[groups[i]].prefixes = <<>>}}

CommandAt(pl) == CommandGroup[groups[pl[1]]].commands[pl[2]]

NameAt(pl) == Command[CommandAt(pl)].names[pl[3]]

\* the message is static prefix k, a space and the name at place pl
IsPrefixSpaceName(k, pl) == msg = config.prefixes[k] \o <<" ">> \o NameAt(pl)

C1_Expected(k, pl) ==
    /\ result.kind = "Command"
    /\ result.prefix = Punct(config.prefixes[k])
    /\ result.command = CommandAt(pl)

\* C1 as claimed: for every configuration, static prefix P and name N of a
\* command of a prefix-less top-level group, P + " " + N resolves to that
\* command with Punct(P).
C1_PrefixSpaceNameResolves ==
    Done =>
        \A k \in DOMAIN config.prefixes : \A pl \in NamePlaces :
            IsPrefixSpaceName(k, pl) => C1_Expected(k, pl)

\* another candidate is accepted before static prefix k
PrefixBlocked(k) ==
    \/ \E i \in DOMAIN Somes(config.dynamic_prefixes) :
          /\ Somes(config.dynamic_prefixes)[i] # config.prefixes[k]
          /\ IsPrefixOf(Somes(config.dynamic_prefixes)[i], msg)
    \/ \E j \in 1..(k - 1) :
          /\ config.prefixes[j] # config.prefixes[k]
          /\ IsPrefixOf(config.prefixes[j], msg)

MentionBlocked ==
    /\ IsSome(config.on_mention)
    /\ stream_parse_mention(take_while_whitespace(StringStream(msg))).ok

HelpBlocked(N) ==
    /\ IsSome(help_was_set)
    /\ \E i \in DOMAIN help_was_set[1] : IsPrefixOf(help_was_set[1][i], N)

HasWhitespace(s) == \E i \in DOMAIN s : is_whitespace(s[i])

NameOk(N) ==
    /\ N \notin config.disabled_commands
    /\ Fold(N) = N
    /\ ~HasWhitespace(N)

\* the literal is found at the start of the text N in the configured mode
LiteralMatches(lit, N) ==
    IF config.by_space THEN lit = N ELSE lit = WindowAt(N, 0, Len(lit))

NameMatches(name, N) ==
    /\ IF config.by_space THEN Fold(N) = name
       ELSE Fold(WindowAt(N, 0, Len(name))) = name
    /\ name \notin config.disabled_commands

\* a top-level group declared before the group of place pl has a prefix
\* found at the start of N
GroupBlocked(pl, N) ==
    \E j \in 1..(pl[1] - 1) : \E i \in DOMAIN CommandGroup[groups[j]].prefixes :
        LiteralMatches(CommandGroup[groups[j]].prefixes[i], N)

Earlier(a, b) ==
    \/ a[1] < b[1]
    \/ a[1] = b[1] /\ a[2] < b[2]
    \/ a[1] = b[1] /\ a[2] = b[2] /\ a[3] < b[3]

\* a name compared before the one at place pl matches the text N
NameBlocked(pl, N) ==
    \E q \in NamePlaces : Earlier(q, pl) /\ NameMatches(NameAt(q), N)

C1_Covered(k, pl) ==
    /\ ~HasWhitespace(<<Head(config.prefixes[k])>>)
    /\ ~MentionBlocked
    /\ ~PrefixBlocked(k)
    /\ NameOk(NameAt(pl))
    /\ ~HelpBlocked(NameAt(pl))
    /\ ~GroupBlocked(pl, NameAt(pl))
    /\ ~NameBlocked(pl, NameAt(pl))

\* C1 amended: P + " " + N resolves to the command declaring N with Punct(P)
\* provided no mention is accepted, no dynamic candidate or earlier static
\* prefix other than P starts the message, N is not disabled, is free of
\* whitespace and is lower-case under case-insensitive matching, no help alias
\* starts N, and no earlier top-level group prefix or earlier command name
\* matches N in the configured mode.
C1_FirstMatchResolves ==
    Done =>
        \A k \in DOMAIN config.prefixes : \A pl \in NamePlaces :
            (IsPrefixSpaceName(k, pl) /\ C1_Covered(k, pl)) =>
                (C1_Expected(k, pl) /\ result.via = "name" /\ result.args = <<>>)

\* "!! help" resolved with the second static prefix "!!" and no whitespace
\* skipped after prefixes
C1_Witness ==
    /\ Done
    /\ config.prefixes = <<t_bang2, t_bang>>
    /\ msg = t_bang2 \o <<" ">> \o t_help
    /\ ~config.with_whitespace.prefixes
    /\ result.kind = "Command"
    /\ result.prefix = Punct(t_bang2)
    /\ result.command = "help"

====
